---- MODULE Spec2Model ----
(***************************************************************************)
(* Model of tunfish/pki-client: the enrollment pipeline of                 *)
(* pki_client.core.PkiClient.mkcert and the classes of pki_client.crypto   *)
(* (AsymmetricKey, Nagamani, Nagamani19).                                  *)
(*                                                                         *)
(* Python values are records, so that any two of them can be compared:     *)
(* None is [none |-> TRUE], a str is [str |-> "..."], bytes are            *)
(* [begin |-> label, body |-> record].  A method is an operator that       *)
(* returns [self, ret, raised]: the object after the call, the returned    *)
(* value and the exception that left the call (None when it returned).     *)
(***************************************************************************)
EXTENDS Integers, Sequences, FiniteSets, TLC

VARIABLES
    pc,       \* pc[r]: the statement of mkcert that run r executes next
    akey,     \* akey[r]: the local AsymmetricKey object of run r
    salt,     \* salt[r]: the local `salt` of the run's Nagamani19.generate call
    args,     \* args[r]: the arguments run r passed to mkcert
    exc,      \* exc[r]: the exception that left mkcert, None if none did
    http,     \* http[r]: the HTTP exchanges issued by run r, oldest first
    env,      \* env[r]: what the clock, the CA and the disk answered to run r
    fs,       \* the file system: path -> None (no file) or [data |-> bytes]
    entropy,  \* how many values the OS randomness source has handed out
    call      \* the last direct call of a crypto function (unit level)

vars == <<pc, akey, salt, args, exc, http, env, fs, entropy, call>>

(***************************************************************************)
(* Bounds of the model.                                                    *)
(***************************************************************************)
MaxInstant == 1     \* the clock reads 1..MaxInstant seconds after 2019-01-01
MaxDraws == 4       \* randomness draws of the unit-level calls
MaxUnitInstant == 3 \* the clock of the unit-level calls reads 1..MaxUnitInstant

Runs == {"A", "B"}
Instants == 1..MaxInstant

(***************************************************************************)
(* Python values.                                                          *)
(***************************************************************************)
None == [none |-> TRUE]
Str(s) == [str |-> s]
\* Truth value of an Optional[str]: None and "" are false.
Truthy(v) == v # None /\ v # Str("")

Ok(self, v) == [self |-> self, ret |-> v, raised |-> None]
Raise(self, e) == [self |-> self, ret |-> None, raised |-> e]

\* An exception: its class, its message (a format and what is interpolated
\* into it) and __context__, the exception that was being handled when it
\* was raised.
Exception(cls, fmt, fmtargs) ==
    [cls |-> cls, msg |-> [fmt |-> fmt, args |-> fmtargs], context |-> None]
RaisedWhileHandling(e, handled) == [e EXCEPT !.context = handled]

(***************************************************************************)
(* Library values: bytes, PEM armor, RSA keys, X.509 objects.              *)
(***************************************************************************)
RawBytes(s) == [begin |-> "", body |-> [raw |-> s]]
Pem(label, obj) == [begin |-> label, body |-> obj]
\* response.text: the body decoded to str
Text(content) == [decoded |-> content]

KEY_SIZE == 4096
PUBLIC_EXPONENT == 65537
SALT_BYTES == 24

\* rsa.generate_private_key(public_exponent, key_size), drawing rnd from the OS
generate_private_key(e, bits, rnd) ==
    [rsa |-> rnd, public_exponent |-> e, key_size |-> bits, private |-> TRUE]
public_key(k) == [k EXCEPT !.private = FALSE]

\* CertificateSigningRequestBuilder().subject_name(name).sign(key, algorithm)
sign(subject, private_key, algorithm) ==
    [ subject    |-> subject,
      public_key |-> public_key(private_key),
      signature  |-> [signer |-> private_key.rsa, hash |-> algorithm, over |-> subject] ]

IsCsr(v) == v # None /\ DOMAIN v = {"subject", "public_key", "signature"}
IsCertificate(v) == DOMAIN v = {"tbs", "issuer"}
CommonName(csr) == csr.subject[1].value

\* x509.load_pem_x509_certificate(data)
load_pem_x509_certificate(data) ==
    IF data.begin = "CERTIFICATE" /\ IsCertificate(data.body)
    THEN Ok(None, data.body)
    ELSE Raise(None, Exception("ValueError", "Unable to load certificate", None))

(***************************************************************************)
(* Nagamani / Nagamani19: the identifier generator.                        *)
(***************************************************************************)
precisions == [s |-> 1, ms |-> 1000, ns |-> 1000000]
size_map == [small |-> "s", medium |-> "ms", large |-> "ns"]

HexDigit == <<"0","1","2","3","4","5","6","7","8","9","a","b","c","d","e","f">>
RECURSIVE hexdigits(_, _)
hexdigits(n, width) ==
    IF width = 0 THEN "" ELSE hexdigits(n \div 16, width - 1) \o HexDigit[(n % 16) + 1]
\* binascii.hexlify(data).decode() of nbytes bytes holding the number n
hexlify(n, nbytes) == Str(hexdigits(n, 2 * nbytes))

\* os.urandom after e earlier draws: the source never hands out a value twice
\* (a repeated 192-bit draw is neglected).
urandom(e) == e + 1

\* gensalt as it would be with the salt computed once and kept for later calls
gensalt_cached(e) == hexlify(urandom(0), SALT_BYTES)

\* Nagamani19.gensalt
gensalt(e) == hexlify(urandom(e), SALT_BYTES)

\* Nagamani.hashify: Hashids(salt=salt).encode(n).  The Hashids codec is a
\* library; it is kept as the symbolic application of a keyed, injective
\* encoding (the empty string for a negative number, as Hashids answers).
hashify(salt_, n) ==
    IF n < 0 THEN Str("")
    ELSE Str("hashids(" \o salt_.str \o ")." \o ToString(n))

\* seconds from 2019-01-01 to January 1st of `year` (365-day years)
Jan1(year) == (year - 2019) * 31536000

\* Nagamani.nagamani_id; `now` is datetime.utcnow() in seconds since 2019-01-01
nagamani_id(year, salt_, precision, now) ==
    IF salt_ = None \/ precision = None
    THEN Raise(None, Exception("AssertionError", "Salt must be given / Precision must be one of s, ms, ns", None))
    ELSE LET scaling == precisions[precision.str]
             duration == now - Jan1(year)
             duration_scaled == duration * scaling
         IN  Ok(None, hashify(salt_, duration_scaled))

\* get_precision as it would be with size_map.get(selector, "ns"): an
\* unrecognized size class falls back instead of failing
get_precision_fallback(selector) ==
    LET sel == IF Truthy(selector) THEN selector ELSE Str("large")
    IN  IF sel.str \in DOMAIN size_map
        THEN Ok(None, Str(size_map[sel.str]))
        ELSE Ok(None, Str("ns"))

\* Nagamani19.get_precision
get_precision(selector) ==
    LET sel == IF Truthy(selector) THEN selector ELSE Str("large")
    IN  IF sel.str \in DOMAIN size_map
        THEN Ok(None, Str(size_map[sel.str]))
        ELSE Raise(None, Exception("KeyError", "{key}", [key |-> sel]))

\* Nagamani19.generate; e is the state of the randomness source, `now` the clock
generate(size, e, now) ==
    LET salt_ == gensalt(e)
        precision == get_precision(size)
    IN  IF precision.raised # None
        THEN [self |-> None, ret |-> None, raised |-> precision.raised, salt |-> salt_]
        ELSE LET id == nagamani_id(2019, salt_, precision.ret, now)
             IN  [self |-> None, ret |-> id.ret, raised |-> id.raised, salt |-> salt_]

(***************************************************************************)
(* AsymmetricKey.                                                          *)
(***************************************************************************)
AsymmetricKey == [private_key |-> None, public_key |-> None, csr |-> None, cert |-> None]

\* AsymmetricKey.make_rsa_key; e is the state of the randomness source
make_rsa_key(self, e) ==
    LET private_key == generate_private_key(PUBLIC_EXPONENT, KEY_SIZE, urandom(e))
    IN  Ok([self EXCEPT !.private_key = private_key, !.public_key = public_key(private_key)],
           None)

\* make_csr as it would be with `if common_name_prefix is not None:`
make_csr_prefix_not_none(self, common_name_prefix, e, now) ==
    LET generated == generate(None, e, now)
        common_name == IF common_name_prefix # None
                       THEN Str(common_name_prefix.str \o "-" \o generated.ret.str)
                       ELSE generated.ret
        subject == <<[oid |-> "commonName", value |-> common_name]>>
    IN  IF generated.raised # None
        THEN Raise(self, generated.raised)
        ELSE Ok([self EXCEPT !.csr = sign(subject, self.private_key, "sha512")], None)

\* AsymmetricKey.make_csr
make_csr(self, common_name_prefix, e, now) ==
    LET generated == generate(None, e, now)
        common_name == IF Truthy(common_name_prefix)
                       THEN Str(common_name_prefix.str \o "-" \o generated.ret.str)
                       ELSE generated.ret
        subject == <<[oid |-> "commonName", value |-> common_name]>>
    IN  IF generated.raised # None
        THEN Raise(self, generated.raised)
        ELSE Ok([self EXCEPT !.csr = sign(subject, self.private_key, "sha512")], None)

\* AsymmetricKey.get_csr
get_csr(self) == Pem("CERTIFICATE REQUEST", self.csr)

(***************************************************************************)
(* requests: the POST and the response object.  `net` is what the network  *)
(* and the CA answer: [raised |-> exception, response |-> None] when no    *)
(* HTTP response exists, [raised |-> None, response |-> ...] otherwise.    *)
(***************************************************************************)
Unbound == [unbound |-> TRUE]

requests_post(url, data, params, headers, net) ==
    IF net.raised # None THEN Raise(None, net.raised) ELSE Ok(None, net.response)

\* Response.raise_for_status: an HTTPError for 4xx and 5xx, nothing otherwise
raise_for_status(response) ==
    IF 400 <= response.status_code /\ response.status_code < 500
    THEN Exception("HTTPError", "{status_code} Client Error: {reason} for url: {url}",
                   [status_code |-> response.status_code, url |-> response.url])
    ELSE IF 500 <= response.status_code /\ response.status_code < 600
    THEN Exception("HTTPError", "{status_code} Server Error: {reason} for url: {url}",
                   [status_code |-> response.status_code, url |-> response.url])
    ELSE None

\* the request submit_csr hands to requests.post
autosign_request(self, url, profile) ==
    [ method  |-> "POST",
      url     |-> url,
      data    |-> get_csr(self),
      params  |-> [profile |-> profile],
      headers |-> [ContentType |-> "application/x-pem-file"] ]

\* Certificate.public_bytes(encoding=PEM)
cert_public_bytes(cert) == Pem("CERTIFICATE", cert)

\* submit_csr as it would be with the PEM decoding inside the try block: the
\* decoder's error is caught and reported as a failed signing
submit_csr_decode_in_try(self, url, profile, net) ==
    LET request == autosign_request(self, url, profile)
        posted == requests_post(request.url, request.data, request.params, request.headers, net)
        response == IF posted.raised = None THEN posted.ret ELSE Unbound
        checked == IF posted.raised # None THEN posted.raised ELSE raise_for_status(response)
        loaded == load_pem_x509_certificate(response.content)
        ex == IF checked # None THEN checked ELSE loaded.raised
    IN  IF ex # None
        THEN IF response = Unbound
             THEN Raise(self, RaisedWhileHandling(
                      Exception("UnboundLocalError",
                                "local variable 'response' referenced before assignment", None),
                      ex))
             ELSE Raise(self, RaisedWhileHandling(
                      Exception("ValueError",
                                "Automatically signing certificate failed: {ex}. Reason: {response.text}",
                                [ex |-> ex, text |-> Text(response.content)]),
                      ex))
        ELSE Ok([self EXCEPT !.cert = loaded.ret], cert_public_bytes(loaded.ret))

\* AsymmetricKey.submit_csr
submit_csr(self, url, profile, net) ==
    LET request == autosign_request(self, url, profile)
        \* the try block: `response` is bound only if requests.post returned
        posted == requests_post(request.url, request.data, request.params, request.headers, net)
        response == IF posted.raised = None THEN posted.ret ELSE Unbound
        ex == IF posted.raised # None THEN posted.raised ELSE raise_for_status(response)
    IN  IF ex # None
        THEN \* the handler formats {ex} and {response.text}
             IF response = Unbound
             THEN Raise(self, RaisedWhileHandling(
                      Exception("UnboundLocalError",
                                "local variable 'response' referenced before assignment", None),
                      ex))
             ELSE Raise(self, RaisedWhileHandling(
                      Exception("ValueError",
                                "Automatically signing certificate failed: {ex}. Reason: {response.text}",
                                [ex |-> ex, text |-> Text(response.content)]),
                      ex))
        ELSE LET loaded == load_pem_x509_certificate(response.content)
             IN  IF loaded.raised # None
                 THEN Raise(self, loaded.raised)
                 ELSE Ok([self EXCEPT !.cert = loaded.ret], cert_public_bytes(loaded.ret))

(***************************************************************************)
(* Files.  `io` is what the disk answers to one open-and-write:            *)
(* "open_fails" (open raises, nothing is touched), "write_fails" (the file *)
(* was created or truncated by open, then write raises) or "ok".           *)
(***************************************************************************)
IoAnswers == {"ok", "open_fails", "write_fails"}
OSError(filename) == Exception("OSError", "{strerror}: {filename}", [filename |-> filename])

\* with open(filename, "wb") as f: f.write(data)
open_wb_write(files, filename, data, io) ==
    IF io = "open_fails"
    THEN [fs |-> files, raised |-> OSError(filename)]
    ELSE IF io = "write_fails"
    THEN [fs |-> [files EXCEPT ![filename] = [data |-> RawBytes("")]], raised |-> OSError(filename)]
    ELSE [fs |-> [files EXCEPT ![filename] = [data |-> data]], raised |-> None]

\* RSAPrivateKey.private_bytes(PEM, TraditionalOpenSSL, NoEncryption())
private_bytes(private_key) == Pem("RSA PRIVATE KEY", private_key)

\* AsymmetricKey.save_key
save_key(self, filename, files, io) ==
    LET written == open_wb_write(files, filename, private_bytes(self.private_key), io)
    IN  [self |-> self, ret |-> None, raised |-> written.raised, fs |-> written.fs]

\* save_cert as it would be writing self.csr instead of self.cert
save_cert_writes_csr(self, filename, files, io) ==
    LET written == open_wb_write(files, filename, Pem("CERTIFICATE", self.csr), io)
    IN  [self |-> self, ret |-> None, raised |-> written.raised, fs |-> written.fs]

\* AsymmetricKey.save_cert
save_cert(self, filename, files, io) ==
    LET written == open_wb_write(files, filename, cert_public_bytes(self.cert), io)
    IN  [self |-> self, ret |-> None, raised |-> written.raised, fs |-> written.fs]

(***************************************************************************)
(* PkiClient.                                                              *)
(***************************************************************************)
\* urllib.parse.urljoin(base, path) for an absolute path: the base's own path
\* is dropped
urljoin(base, path) == Str(base.origin \o path)

PkiClient == [ca_baseurl |-> [origin |-> "http://localhost:8000", path |-> "/"],
              ca_name    |-> Str("RootCA")]

autocert_url(self) == urljoin(self.ca_baseurl, "/pki/" \o self.ca_name.str \o "/autosign")

\* mkcert as it would be with each statement retried until it succeeds
mkcert_next_retry(statement, raised) ==
    IF raised # None THEN statement
    ELSE CASE statement = "AsymmetricKey" -> "make_rsa_key"
           [] statement = "make_rsa_key"  -> "make_csr"
           [] statement = "make_csr"      -> "submit_csr"
           [] statement = "submit_csr"    -> "save_key"
           [] statement = "save_key"      -> "save_cert"
           [] statement = "save_cert"     -> "returned"

\* mkcert is straight-line code without any try: after a statement that
\* raised, the exception leaves mkcert; otherwise the next statement runs.
mkcert_next(statement, raised) ==
    IF raised # None THEN "raised"
    ELSE CASE statement = "AsymmetricKey" -> "make_rsa_key"
           [] statement = "make_rsa_key"  -> "make_csr"
           [] statement = "make_csr"      -> "submit_csr"
           [] statement = "submit_csr"    -> "save_key"
           [] statement = "save_key"      -> "save_cert"
           [] statement = "save_cert"     -> "returned"

(***************************************************************************)
(* The environment: the CA behind the autosign URL, the network, the disk. *)
(***************************************************************************)
Statuses == {102, 200, 304, 400, 503}
Bodies == {"certificate", "other certificate", "text"}
NetFailures == {"ConnectionError", "SSLError"}

\* what the network may do with one POST: fail, or deliver a response with
\* any status and any of the bodies
NetChoices ==
    [kind : {"failure"}, failure : NetFailures]
      \cup [kind : {"response"}, status_code : Statuses, body : Bodies]

\* the certificate a CA named `issuer` signs for the request `csr`
Issued(csr, issuer) ==
    [tbs |-> [subject |-> csr.subject, public_key |-> csr.public_key], issuer |-> issuer]
OtherCertificate ==
    [tbs |-> [subject |-> <<[oid |-> "commonName", value |-> Str("somebody-else")]>>,
              public_key |-> public_key(generate_private_key(PUBLIC_EXPONENT, KEY_SIZE, 0))],
     issuer |-> Str("RootCA")]

Content(body, request) ==
    CASE body = "certificate"       -> Pem("CERTIFICATE", Issued(request.data.body, Str("RootCA")))
      [] body = "other certificate" -> Pem("CERTIFICATE", OtherCertificate)
      [] body = "text"              -> RawBytes("profile unknown")

NetAnswer(choice, request) ==
    IF choice.kind = "failure"
    THEN [raised |-> Exception(choice.failure, "{request.url}", [url |-> request.url]),
          response |-> None]
    ELSE [raised |-> None,
          response |-> [status_code |-> choice.status_code,
                        url         |-> request.url,
                        content     |-> Content(choice.body, request)]]

(***************************************************************************)
(* State.                                                                  *)
(***************************************************************************)
KeyPath(r) == [dir |-> r, name |-> "key.pem"]
CertPath(r) == [dir |-> r, name |-> "cert.pem"]
Paths == {KeyPath(r) : r \in Runs} \cup {CertPath(r) : r \in Runs}

Prefixes == {None, Str(""), Str("node-a")}
\* the prefixes the runs of mkcert are given
MkcertPrefixes == {None, Str("node-a")}
Sizes == {None, Str(""), Str("small"), Str("medium"), Str("large"), Str("bogus"), Str("ns")}

NoAnswers == [now |-> None, net |-> None, key_io |-> None, cert_io |-> None]

Init ==
    /\ pc = [r \in Runs |-> "AsymmetricKey"]
    /\ akey = [r \in Runs |-> None]
    /\ salt = [r \in Runs |-> None]
    /\ \E prefix \in [Runs -> MkcertPrefixes] :
         args = [r \in Runs |-> [ private_key_path   |-> KeyPath(r),
                                  cert_path          |-> CertPath(r),
                                  profile            |-> Str("client"),
                                  common_name_prefix |-> prefix[r] ]]
    /\ exc = [r \in Runs |-> None]
    /\ http = [r \in Runs |-> <<>>]
    /\ env = [r \in Runs |-> NoAnswers]
    /\ fs = [p \in Paths |-> None]
    /\ entropy = 0
    /\ call = [op |-> "none"]

(***************************************************************************)
(* PkiClient.mkcert, one action per statement.                             *)
(***************************************************************************)
\* the statement of run r ended with `raised`
Advance(r, raised) ==
    /\ pc' = [pc EXCEPT ![r] = mkcert_next(pc[r], raised)]
    /\ exc' = [exc EXCEPT ![r] = raised]

\* akey = AsymmetricKey()
Construct(r) ==
    /\ pc[r] = "AsymmetricKey"
    /\ akey' = [akey EXCEPT ![r] = AsymmetricKey]
    /\ Advance(r, None)
    /\ UNCHANGED <<salt, args, http, env, fs, entropy, call>>

\* akey.make_rsa_key()
MakeRsaKey(r) ==
    /\ pc[r] = "make_rsa_key"
    /\ LET done == make_rsa_key(akey[r], entropy)
       IN  /\ akey' = [akey EXCEPT ![r] = done.self]
           /\ Advance(r, done.raised)
    /\ entropy' = entropy + 1
    /\ UNCHANGED <<salt, args, http, env, fs, call>>

\* akey.make_csr(common_name_prefix=common_name_prefix)
MakeCsr(r) ==
    /\ pc[r] = "make_csr"
    /\ \E now \in Instants :
         LET done == make_csr(akey[r], args[r].common_name_prefix, entropy, now)
         IN  /\ akey' = [akey EXCEPT ![r] = done.self]
             /\ salt' = [salt EXCEPT ![r] = generate(None, entropy, now).salt]
             /\ env' = [env EXCEPT ![r].now = [t |-> now]]
             /\ Advance(r, done.raised)
    /\ entropy' = entropy + 1
    /\ UNCHANGED <<args, http, fs, call>>

\* akey.submit_csr(url=self.autocert_url, profile=profile)
SubmitCsr(r) ==
    /\ pc[r] = "submit_csr"
    /\ \E choice \in NetChoices :
         LET request == autosign_request(akey[r], autocert_url(PkiClient), args[r].profile)
             net == NetAnswer(choice, request)
             done == submit_csr(akey[r], autocert_url(PkiClient), args[r].profile, net)
         IN  /\ akey' = [akey EXCEPT ![r] = done.self]
             /\ http' = [http EXCEPT ![r] = Append(@, [request |-> request, answer |-> net])]
             /\ env' = [env EXCEPT ![r].net = choice]
             /\ Advance(r, done.raised)
    /\ UNCHANGED <<salt, args, fs, entropy, call>>

\* akey.save_key(private_key_path)
SaveKey(r) ==
    /\ pc[r] = "save_key"
    /\ \E io \in IoAnswers :
         LET done == save_key(akey[r], args[r].private_key_path, fs, io)
         IN  /\ fs' = done.fs
             /\ env' = [env EXCEPT ![r].key_io = Str(io)]
             /\ Advance(r, done.raised)
    /\ UNCHANGED <<akey, salt, args, http, entropy, call>>

\* akey.save_cert(cert_path)
SaveCert(r) ==
    /\ pc[r] = "save_cert"
    /\ \E io \in IoAnswers :
         LET done == save_cert(akey[r], args[r].cert_path, fs, io)
         IN  /\ fs' = done.fs
             /\ env' = [env EXCEPT ![r].cert_io = Str(io)]
             /\ Advance(r, done.raised)
    /\ UNCHANGED <<akey, salt, args, http, entropy, call>>

Next ==
    \E r \in Runs :
        \/ Construct(r)
        \/ MakeRsaKey(r)
        \/ MakeCsr(r)
        \/ SubmitCsr(r)
        \/ SaveKey(r)
        \/ SaveCert(r)

Spec == Init /\ [][Next]_vars

(***************************************************************************)
(* Unit level: direct calls of Nagamani19.generate and of                  *)
(* AsymmetricKey.make_rsa_key followed by make_csr, as the tests make them.*)
(***************************************************************************)
UnitInstants == 1..MaxUnitInstant

CallGenerate ==
    /\ entropy < MaxDraws
    /\ \E size \in Sizes, now \in UnitInstants :
         call' = [op |-> "generate", size |-> size, now |-> now, e |-> entropy,
                  result |-> generate(size, entropy, now)]
    /\ entropy' = entropy + 1
    /\ UNCHANGED <<pc, akey, salt, args, exc, http, env, fs>>

CallMakeCsr ==
    /\ entropy + 2 <= MaxDraws
    /\ \E prefix \in Prefixes, now \in UnitInstants :
         LET keyed == make_rsa_key(AsymmetricKey, entropy)
         IN  call' = [op |-> "make_csr", prefix |-> prefix, now |-> now, e |-> entropy + 1,
                      keyed |-> keyed.self,
                      id |-> generate(None, entropy + 1, now).ret,
                      result |-> make_csr(keyed.self, prefix, entropy + 1, now)]
    /\ entropy' = entropy + 2
    /\ UNCHANGED <<pc, akey, salt, args, exc, http, env, fs>>

UnitNext == CallGenerate \/ CallMakeCsr

UnitSpec == Init /\ [][UnitNext]_vars

(***************************************************************************)
(* Vocabulary of the properties.                                           *)
(***************************************************************************)
Terminal(r) == pc[r] \in {"returned", "raised"}
Posted(r) == Len(http[r]) > 0
\* the answer to the run's POST; its response is None when none exists
Answer(r) == http[r][1].answer
Success(status_code) == 200 <= status_code /\ status_code <= 299
Cert(r) == IF akey[r] = None THEN None ELSE akey[r].cert
Decodes(content) == load_pem_x509_certificate(content).raised = None

\* The error taxonomy, as the errors the code raises.
SigningFailed == "Automatically signing certificate failed: {ex}. Reason: {response.text}"
\* CaRejected: the error of submit_csr's handler, carrying status and body
CaRejected(e, status_code, content) ==
    /\ e # None
    /\ e.cls = "ValueError"
    /\ e.msg.fmt = SigningFailed
    /\ e.msg.args.ex.cls = "HTTPError"
    /\ e.msg.args.ex.msg.args.status_code = status_code
    /\ e.msg.args.text = Text(content)
\* TransportError: the error of submit_csr's handler, carrying the cause
TransportError(e, cause) ==
    /\ e # None
    /\ e.cls = "ValueError"
    /\ e.msg.fmt = SigningFailed
    /\ e.msg.args.ex = cause
\* MalformedCaResponse: the error of the PEM decoder
MalformedCaResponse(e) ==
    /\ e # None
    /\ e.cls = "ValueError"
    /\ e.msg.fmt = "Unable to load certificate"
\* InvalidPrecision: the failed lookup of the size class
InvalidPrecision(e) == e # None /\ e.cls = "KeyError"
\* what a caller can tell errors apart by: the class and the fixed text
ErrorKind(e) == IF e = None THEN <<"", "">> ELSE <<e.cls, e.msg.fmt>>

(***************************************************************************)
(* C1.  For every HTTP response to the autosign POST whose status is not   *)
(* in 200..299 (1xx and 3xx as well as 4xx and 5xx), submit_csr fails with *)
(* CaRejected, the error carries the status and the body verbatim, and no  *)
(* certificate is recorded.  (The statement of the claim; the code does    *)
(* not satisfy it for 1xx and 3xx.)                                        *)
(***************************************************************************)
C1_NonSuccessIsCaRejected ==
    \A r \in Runs :
        (Posted(r) /\ Answer(r).response # None
                   /\ ~Success(Answer(r).response.status_code))
        => /\ pc[r] = "raised"
           /\ CaRejected(exc[r], Answer(r).response.status_code, Answer(r).response.content)
           /\ Cert(r) = None

(***************************************************************************)
(* C2.  When the POST fails at the network level, so that no HTTP response *)
(* exists, submit_csr fails with TransportError, whose message includes    *)
(* the underlying cause, and with no other kind of error.  (The statement  *)
(* of the claim; the code raises UnboundLocalError instead.)               *)
(***************************************************************************)
C2_NetworkFailureIsTransportError ==
    \A r \in Runs :
        (Posted(r) /\ Answer(r).raised # None)
        => /\ pc[r] = "raised"
           /\ TransportError(exc[r], Answer(r).raised)

(***************************************************************************)
(* C3.  When the POST returns a 2xx status with a body that does not       *)
(* decode as a PEM certificate, submit_csr fails with MalformedCaResponse, *)
(* no certificate is recorded, and a caller can tell this error from every *)
(* CaRejected error (the handler's error for a rejecting status).          *)
(***************************************************************************)
MalformedCase(r) ==
    /\ Posted(r)
    /\ Answer(r).response # None
    /\ Success(Answer(r).response.status_code)
    /\ ~Decodes(Answer(r).response.content)

RejectedCase(q) ==
    /\ Posted(q)
    /\ Answer(q).response # None
    /\ CaRejected(exc[q], Answer(q).response.status_code, Answer(q).response.content)

C3_MalformedIsDistinct ==
    \A r \in Runs :
        MalformedCase(r)
        => /\ pc[r] = "raised"
           /\ MalformedCaResponse(exc[r])
           /\ Cert(r) = None
           /\ \A q \in Runs : RejectedCase(q) => ErrorKind(exc[q]) # ErrorKind(exc[r])

C3_Witness ==
    \E r, q \in Runs :
        /\ MalformedCase(r) /\ pc[r] = "raised"
        /\ RejectedCase(q) /\ pc[q] = "raised"

(***************************************************************************)
(* C4.  Whenever a run of mkcert ends, by success or by any failure, the   *)
(* private key and the certificate are either both persisted or neither    *)
(* is.  (The statement of the claim; the code leaves the key file behind   *)
(* when writing the certificate fails.)                                    *)
(***************************************************************************)
\* the file holds the PEM document that was to be written
Persisted(path) == fs[path] # None /\ fs[path].data.begin # ""

C4_BothOrNeither ==
    \A r \in Runs :
        Terminal(r)
        => (Persisted(args[r].private_key_path) <=> Persisted(args[r].cert_path))

(***************************************************************************)
(* C6.  Every failure aborts the enrollment without retry: a run that has  *)
(* ended changes nothing any more, a statement that raised ends the run,   *)
(* the statements run in their order and none runs twice, and at most one  *)
(* POST is issued per run.                                                 *)
(***************************************************************************)
Position(statement) ==
    CASE statement = "AsymmetricKey" -> 0
      [] statement = "make_rsa_key"  -> 1
      [] statement = "make_csr"      -> 2
      [] statement = "submit_csr"    -> 3
      [] statement = "save_key"      -> 4
      [] statement = "save_cert"     -> 5
      [] statement = "returned"      -> 6
      [] statement = "raised"        -> 6

C6_AbortWithoutRetry ==
    [][\A r \in Runs :
          /\ Terminal(r) => /\ pc'[r] = pc[r] /\ exc'[r] = exc[r]
                            /\ akey'[r] = akey[r] /\ http'[r] = http[r]
                            /\ fs'[args[r].private_key_path] = fs[args[r].private_key_path]
                            /\ fs'[args[r].cert_path] = fs[args[r].cert_path]
          /\ exc'[r] # None => pc'[r] = "raised"
          /\ pc'[r] # pc[r] => Position(pc'[r]) > Position(pc[r])
          /\ Len(http'[r]) <= 1]_vars

C6_Witness ==
    \E r, q \in Runs :
        /\ pc[r] = "raised" /\ Posted(r) /\ fs[args[r].private_key_path] = None
        /\ pc[q] = "raised" /\ fs[args[q].private_key_path] # None
                            /\ fs[args[q].cert_path] = None

(***************************************************************************)
(* C9.  In every run the key file and the certificate file are written,    *)
(* and a certificate is recorded, only after the POST returned a success   *)
(* status and its body decoded as a certificate.  (The statement of the    *)
(* claim; it fails for the 1xx and 3xx responses of C1.)                   *)
(***************************************************************************)
C9_WritesOnlyAfterSuccess ==
    \A r \in Runs :
        (\/ fs[args[r].private_key_path] # None
         \/ fs[args[r].cert_path] # None
         \/ Cert(r) # None)
        => /\ Posted(r)
           /\ Answer(r).response # None
           /\ Success(Answer(r).response.status_code)
           /\ Decodes(Answer(r).response.content)

(***************************************************************************)
(* C10.  In every run that completes, the key written to the key file is   *)
(* the key that signed the CSR sent in the run's one POST, and the         *)
(* certificate written to the certificate file is the one decoded from the *)
(* response to that POST.                                                  *)
(***************************************************************************)
C10_ArtefactsBelongTogether ==
    \A r \in Runs :
        pc[r] = "returned"
        => LET csr == http[r][1].request.data.body
               key_file == fs[args[r].private_key_path].data
               cert_file == fs[args[r].cert_path].data
               decoded == load_pem_x509_certificate(Answer(r).response.content)
           IN  /\ Len(http[r]) = 1
               /\ http[r][1].request.data.begin = "CERTIFICATE REQUEST"
               /\ key_file.begin = "RSA PRIVATE KEY"
               /\ key_file.body.private
               /\ csr.signature.signer = key_file.body.rsa
               /\ csr.public_key = public_key(key_file.body)
               /\ decoded.raised = None
               /\ cert_file = Pem("CERTIFICATE", decoded.ret)

C10_Witness ==
    \E r \in Runs :
        /\ pc[r] = "returned"
        /\ env[r].net.body = "other certificate"
        /\ fs[args[r].cert_path].data.body = OtherCertificate

(***************************************************************************)
(* C5.  generate(sizeClass) fails with InvalidPrecision for every          *)
(* sizeClass that is not one of small, medium, large ("bogus", the empty   *)
(* string), returns an identifier for each of the three, and uses large    *)
(* when no sizeClass is given.  (The statement of the claim; the code      *)
(* treats the empty string as no sizeClass.)                               *)
(***************************************************************************)
Recognized == {Str("small"), Str("medium"), Str("large")}
\* the scaling of a recognized size class: seconds, milliseconds, "large"
ScalingOf(size) ==
    CASE size = Str("small")  -> 1
      [] size = Str("medium") -> 1000
      [] size = Str("large")  -> 1000000
\* the identifier of a call: the scaled duration since 2019-01-01, encoded
\* under the salt the call drew
IdentifierOf(c, scaling) == hashify(hexlify(c.e + 1, 24), c.now * scaling)

C5_Original ==
    call.op = "generate"
    => /\ (call.size # None /\ call.size \notin Recognized)
            => InvalidPrecision(call.result.raised)
       /\ call.size \in Recognized
            => /\ call.result.raised = None
               /\ call.result.ret = IdentifierOf(call, ScalingOf(call.size))
       /\ call.size = None
            => /\ call.result.raised = None
               /\ call.result.ret = IdentifierOf(call, ScalingOf(Str("large")))

(***************************************************************************)
(* C5, amended.  generate(sizeClass) fails with InvalidPrecision for every *)
(* non-empty sizeClass that is not one of small, medium, large, returns an *)
(* identifier for each of the three, and uses large when no sizeClass is   *)
(* given or when it is the empty string.                                   *)
(***************************************************************************)
C5_Amended ==
    call.op = "generate"
    => /\ (call.size # None /\ call.size # Str("") /\ call.size \notin Recognized)
            => /\ InvalidPrecision(call.result.raised)
               /\ call.result.ret = None
       /\ call.size \in Recognized
            => /\ call.result.raised = None
               /\ call.result.ret = IdentifierOf(call, ScalingOf(call.size))
       /\ (call.size = None \/ call.size = Str(""))
            => /\ call.result.raised = None
               /\ call.result.ret = IdentifierOf(call, ScalingOf(Str("large")))

C5_Witness ==
    /\ call.op = "generate"
    /\ call.size = Str("")
    /\ call.result.raised = None
    /\ call.result.ret = IdentifierOf(call, 1000000)

(***************************************************************************)
(* C7.  After make_rsa_key, make_csr(prefix) always produces a CSR; its    *)
(* subject Common Name is "{prefix}-{id}" when a non-empty prefix is       *)
(* given and {id} alone when the prefix is absent or empty, where id is    *)
(* the freshly generated identifier.                                       *)
(***************************************************************************)
C7_CommonName ==
    call.op = "make_csr"
    => LET id == IdentifierOf(call, 1000000)
           csr == call.result.self.csr
       IN  /\ call.result.raised = None
           /\ IsCsr(csr)
           /\ csr.public_key = call.keyed.public_key
           /\ Len(csr.subject) = 1
           /\ csr.subject[1].oid = "commonName"
           /\ IF call.prefix # None /\ call.prefix # Str("")
              THEN CommonName(csr) = Str(call.prefix.str \o "-" \o id.str)
              ELSE CommonName(csr) = id

C7_Witness ==
    /\ call.op = "make_csr"
    /\ call.prefix = Str("")
    /\ IsCsr(call.result.self.csr)
    /\ CommonName(call.result.self.csr) = call.id

(***************************************************************************)
(* C8.  Concurrent runs do not interfere: in any interleaving of two runs  *)
(* of mkcert with distinct destinations, a step of one run leaves the key  *)
(* pair, salt, CSR, certificate, exchanges and files of the other as they  *)
(* are, the runs draw salts and key pairs of their own, and each run ends  *)
(* in the outcome it reaches alone under the same answers of the clock,    *)
(* the CA and the disk.                                                    *)
(***************************************************************************)
FileKind(file) == IF file = None THEN "absent" ELSE file.data.begin

Outcome(r) ==
    [ pc        |-> pc[r],
      exc       |-> ErrorKind(exc[r]),
      key_file  |-> FileKind(fs[args[r].private_key_path]),
      cert_file |-> FileKind(fs[args[r].cert_path]),
      cert      |-> Cert(r) # None ]

\* mkcert(a) executed alone, from a fresh randomness source and an empty
\* disk, under the answers `e`
Alone(a, e) ==
    LET url == autocert_url(PkiClient)
        nofiles == [p \in Paths |-> None]
        k1 == make_rsa_key(AsymmetricKey, 0)
        k2 == make_csr(k1.self, a.common_name_prefix, 1, e.now.t)
        k3 == submit_csr(k2.self, url, a.profile,
                         NetAnswer(e.net, autosign_request(k2.self, url, a.profile)))
        k4 == save_key(k3.self, a.private_key_path, nofiles, e.key_io.str)
        k5 == save_cert(k4.self, a.cert_path, k4.fs, e.cert_io.str)
        ended(at, raised, files, self) ==
            [ pc        |-> at,
              exc       |-> ErrorKind(raised),
              key_file  |-> FileKind(files[a.private_key_path]),
              cert_file |-> FileKind(files[a.cert_path]),
              cert      |-> self.cert # None ]
    IN  IF k1.raised # None THEN ended("raised", k1.raised, nofiles, k1.self)
        ELSE IF k2.raised # None THEN ended("raised", k2.raised, nofiles, k2.self)
        ELSE IF k3.raised # None THEN ended("raised", k3.raised, nofiles, k3.self)
        ELSE IF k4.raised # None THEN ended("raised", k4.raised, k4.fs, k4.self)
        ELSE IF k5.raised # None THEN ended("raised", k5.raised, k5.fs, k5.self)
        ELSE ended("returned", None, k5.fs, k5.self)

OwnMaterial ==
    \A r, q \in Runs :
        r # q =>
          /\ (salt[r] # None /\ salt[q] # None) => salt[r] # salt[q]
          /\ (akey[r] # None /\ akey[q] # None /\ akey[r].private_key # None
                /\ akey[q].private_key # None)
               => /\ akey[r].private_key # akey[q].private_key
                  /\ akey[r].public_key # akey[q].public_key
          /\ args[r].private_key_path # args[q].private_key_path
          /\ args[r].cert_path # args[q].cert_path

C8_NoInterference ==
    /\ [](OwnMaterial /\ \A r \in Runs : Terminal(r) => Outcome(r) = Alone(args[r], env[r]))
    /\ [][\A r \in Runs :
            pc'[r] = pc[r]
            => /\ akey'[r] = akey[r]
               /\ salt'[r] = salt[r]
               /\ exc'[r] = exc[r]
               /\ http'[r] = http[r]
               /\ env'[r] = env[r]
               /\ fs'[args[r].private_key_path] = fs[args[r].private_key_path]
               /\ fs'[args[r].cert_path] = fs[args[r].cert_path]]_vars

\* both runs ended, one returned and one raised, after their statements
\* interleaved: B drew its key between A's key and A's salt
C8_Witness ==
    /\ pc["A"] = "returned"
    /\ pc["B"] = "raised"
    /\ akey["A"].private_key.rsa = 1
    /\ akey["B"].private_key.rsa = 2
    /\ salt["A"] = hexlify(3, 24)
    /\ salt["B"] = hexlify(4, 24)

====
